---- MODULE Spec2Model ----
(***************************************************************************)
(* Model of linearmodels/asset_pricing/model.py: the estimator family      *)
(* TradedFactorModel, LinearFactorModel and LinearFactorModelGMM.          *)
(*                                                                         *)
(* Arrays are functions on 0..n-1 so that every index is the source's      *)
(* index.  Floating-point contents that no index computation depends on    *)
(* are symbolic terms: the leaf <<name, row, col>> is entry [row, col] of  *)
(* the array called name, and Times(x, y) is the product x * y.            *)
(***************************************************************************)
EXTENDS Integers, Sequences, FiniteSets, TLC

VARIABLES self, ctor, ret, locals, nfits

vars == <<self, ctor, ret, locals, nfits>>

(* ------------------------------ bounds --------------------------------- *)

\* Portfolios and factors per model.  A model has nfactor + 1 observations
\* (none left once the nfactor + 1 loadings are taken off) or nfactor + 2.

MaxNportfolio == 2

MaxNfactor == 2

\* fit calls made on one model object.
MaxFits == 2

(* --------------------------- Python values ------------------------------ *)

PyNone == [t |-> "none"]

PyBool(b) == [t |-> "bool", b |-> b]

PyInt(i) == [t |-> "int", i |-> i]

PyStr(s) == [t |-> "str", s |-> s]

\* bool(v): Python truthiness of None, bool, int and str values.
bool(v) ==
    CASE v.t = "none" -> FALSE
      [] v.t = "bool" -> v.b
      [] v.t = "int" -> v.i # 0
      [] v.t = "str" -> v.s # ""

\* int(b) of a bool.
int(b) == IF b THEN 1 ELSE 0

\* dict.get(key, default) on a dict held as a function from its keys.
Get(d, key, default) == IF key \in DOMAIN d THEN d[key] ELSE default

(* ------------------------------ numpy ----------------------------------- *)

Range(n) == 0 .. (n - 1)

Rows(a) == Cardinality(DOMAIN a)

Cols(a) == Cardinality(DOMAIN a[0])

arange(n) == [i \in Range(n) |-> i]

\* np.tile(a, (rr, rc)) of a 2-d array.
tile(a, rr, rc) ==
    LET r == Rows(a)
        c == Cols(a)
    IN  [i \in Range(r * rr) |-> [j \in Range(c * rc) |-> a[i % r][j % c]]]

\* a.ravel() / a.ravel(order='C'): row-major flattening.
ravel_C(a) ==
    LET r == Rows(a)
        c == Cols(a)
    IN  [n \in Range(r * c) |-> a[n \div c][n % c]]

\* a.ravel(order='F'): column-major flattening.
ravel_F(a) ==
    LET r == Rows(a)
        c == Cols(a)
    IN  [n \in Range(r * c) |-> a[n % r][n \div r]]

\* np.reshape(flat, (r, c)) of a 1-d array, row-major.
reshape_C(flat, r, c) == [i \in Range(r) |-> [j \in Range(c) |-> flat[i * c + j]]]

\* np.reshape(flat, (r, c), order='F') of a 1-d array, column-major.
reshape_F(flat, r, c) == [i \in Range(r) |-> [j \in Range(c) |-> flat[j * r + i]]]

\* a.T
transpose(a) ==
    LET r == Rows(a)
        c == Cols(a)
    IN  [j \in Range(c) |-> [i \in Range(r) |-> a[i][j]]]

\* np.c_[a, b]: column-wise concatenation of two 2-d arrays of equal height.
c_(a, b) ==
    LET r == Rows(a)
        ca == Cols(a)
        cb == Cols(b)
    IN  [i \in Range(r) |->
            [j \in Range(ca + cb) |-> IF j < ca THEN a[i][j] ELSE b[i][j - ca]]]

\* a[order][:, order]
take2(a, order) ==
    [i \in DOMAIN order |-> [j \in DOMAIN order |-> a[order[i]][order[j]]]]

\* a[:r, :c]
block(a, r, c) == [i \in Range(r) |-> [j \in Range(c) |-> a[i][j]]]

\* x * y on two floating-point entries, kept symbolic.
Times(x, y) == [mul |-> <<x, y>>]

\* a * b, element-wise on two 2-d arrays of the same shape.
multiply(a, b) ==
    LET r == Rows(a)
        c == Cols(a)
    IN  [i \in Range(r) |-> [j \in Range(c) |-> Times(a[i][j], b[i][j])]]

\* The symbolic r-by-c array called name.
Sym(name, r, c) == [i \in Range(r) |-> [j \in Range(c) |-> <<name, i, j>>]]

(* ------------------------------ IVData ---------------------------------- *)

\* IVData(x, var_name=...): the wrapped array and its column labels.
IVData(nobs, ncol, var_name) == [var_name |-> var_name, shape |-> <<nobs, ncol>>]

ndarray(iv) == Sym(iv.var_name, iv.shape[1], iv.shape[2])

cols(iv) == [i \in Range(iv.shape[2]) |-> <<iv.var_name, i>>]

(* --------------------------- the model classes -------------------------- *)

NoObject == [cls |-> "none"]

\* TradedFactorModel.__init__(self, portfolios, factors), run for class cls.
\* The signature takes no keyword: a call that passes one raises TypeError
\* before the body runs.
TradedFactorModel_init(cls, portfolios, factors, kwargs) ==
    IF DOMAIN kwargs # {}
    THEN [raised |-> "TypeError", self |-> NoObject]
    ELSE [raised |-> "",
          self |-> [cls |-> cls,
                    portfolios |-> IVData(portfolios.nobs, portfolios.ncol, "portfolio"),
                    factors |-> IVData(factors.nobs, factors.ncol, "factor"),
                    _name |-> cls]]

\* LinearFactorModel.__init__(self, portfolios, factors, *, sigma=None)
LinearFactorModel_init(portfolios, factors, sigma) ==
    LET base == TradedFactorModel_init("LinearFactorModel", portfolios, factors, <<>>)
    IN  [raised |-> base.raised,
         self |-> [cls |-> base.self.cls,
                   portfolios |-> base.self.portfolios,
                   factors |-> base.self.factors,
                   _name |-> base.self._name,
                   _sigma |-> sigma]]

\* LinearFactorModelGMM.__init__(self, factors, portfolios, *, constant=True):
\* forwards (factors, portfolios, constant=constant) to the base initialiser.
LinearFactorModelGMM_init(factors, portfolios, constant) ==
    TradedFactorModel_init("LinearFactorModelGMM", factors, portfolios,
                           [constant |-> constant])

\* LinearFactorModelGMM.fit(self)
LinearFactorModelGMM_fit(s) ==
    [self |-> s, raised |-> "NotImplementedError", value |-> [type |-> "none"]]

(* ------------------- kernel covariance (iv.covariance) ------------------ *)

\* The kernel names of KERNEL_LOOKUP.
KERNEL_LOOKUP == {"bartlett", "parzen", "qs"}

\* KERNEL_LOOKUP[kernel](bw, n): the subscript is evaluated before the call,
\* so an unknown name fails before the bandwidth is looked at.
kernel_weights(kernel, bw, n) ==
    IF kernel \notin KERNEL_LOOKUP
    THEN [raised |-> "UnknownKernelError"]
    ELSE IF bw < 0
         THEN [raised |-> "InvalidBandwidthError"]
         ELSE [raised |-> "", kernel |-> kernel, bw |-> bw, n |-> n]

\* _cov_kernel(z, w): the long-run covariance of the moment matrix named z.
cov_kernel(z, w) == [est |-> "kernel", of |-> z, w |-> w]

(* ------------------------ TradedFactorModel.fit ------------------------- *)

\* The least integer b with b >= 4 * (nobs / 100) ** (2 / 9), searched upward
\* from b.  b >= 4 * (nobs/100)^(2/9) iff b^9 * 100^2 >= 4^9 * nobs^2, that is
\* (both sides divided by 16) iff 625 * b^9 >= 16384 * nobs^2.
RECURSIVE CeilFrom(_, _)
CeilFrom(nobs, b) ==
    IF 625 * (b ^ 9) >= 16384 * nobs * nobs THEN b ELSE CeilFrom(nobs, b + 1)

\* int(np.ceil(4 * (nobs / 100) ** (2 / 9)))
AutoBandwidth(nobs) == CeilFrom(nobs, 0)

\* Bandwidth as a missing-when-falsy default: 0 is replaced as well.
BandwidthFalsy(cov_config, nobs) ==
    LET bw == Get(cov_config, "bandwidth", PyNone)
    IN  IF ~bool(bw) THEN AutoBandwidth(nobs) ELSE bw.i

\* bw = cov_config.get('bandwidth', None)
\* bw = int(np.ceil(4 * (nobs / 100) ** (2 / 9))) if bw is None else bw
Bandwidth(cov_config, nobs) ==
    LET bw == Get(cov_config, "bandwidth", PyNone)
    IN  IF bw.t = "none" THEN AutoBandwidth(nobs) ELSE bw.i

\* The dispatch with 'heteroskedastic' left out of the first branch.
CovDispatchRobustOnly(cov_type, cov_config, nobs) ==
    IF cov_type = "robust"
    THEN [raised |-> "", path |-> "robust",
          xeex |-> [est |-> "outer", of |-> "xe", div |-> nobs],
          rp_cov |-> [est |-> "outer", of |-> "fe", div |-> nobs]]
    ELSE IF cov_type = "kernel"
    THEN LET kernel == Get(cov_config, "kernel", PyStr("bartlett")).s
             bw == Bandwidth(cov_config, nobs)
             w == kernel_weights(kernel, bw, nobs - 1)
         IN  IF w.raised # ""
             THEN [raised |-> w.raised, path |-> "kernel", bw |-> bw]
             ELSE [raised |-> "", path |-> "kernel", bw |-> bw,
                   xeex |-> cov_kernel("xe", w), rp_cov |-> cov_kernel("fe", w)]
    ELSE [raised |-> "ValueError", path |-> "unknown"]

\* if cov_type in ('robust', 'heteroskedastic'): ... elif cov_type == 'kernel':
\* ... else: raise ValueError('Unknown cov_type: ...')
CovDispatch(cov_type, cov_config, nobs) ==
    IF cov_type \in {"robust", "heteroskedastic"}
    THEN [raised |-> "", path |-> "robust",
          xeex |-> [est |-> "outer", of |-> "xe", div |-> nobs],
          rp_cov |-> [est |-> "outer", of |-> "fe", div |-> nobs]]
    ELSE IF cov_type = "kernel"
    THEN LET kernel == Get(cov_config, "kernel", PyStr("bartlett")).s
             bw == Bandwidth(cov_config, nobs)
             w == kernel_weights(kernel, bw, nobs - 1)
         IN  IF w.raised # ""
             THEN [raised |-> w.raised, path |-> "kernel", bw |-> bw]
             ELSE [raised |-> "", path |-> "kernel", bw |-> bw,
                   xeex |-> cov_kernel("xe", w), rp_cov |-> cov_kernel("fe", w)]
    ELSE [raised |-> "ValueError", path |-> "unknown"]

\* The moment matrix with eps_rep reshaped row-major instead of column-major.
MomentMatrixRowMajor(fc, eps, fe, nobs, nfactor, nportfolio) ==
    LET f_rep == tile(fc, 1, nportfolio)
        eps_rep == reshape_C(ravel_C(tile(eps, nfactor + 1, 1)),
                             nobs, (nfactor + 1) * nportfolio)
    IN  c_(multiply(f_rep, eps_rep), fe)

\* f_rep = np.tile(fc, (1, nportfolio))
\* eps_rep = np.tile(eps, (nfactor + 1, 1)).ravel(order='F')
\* eps_rep = np.reshape(eps_rep, (nobs, (nfactor + 1) * nportfolio), order='F')
\* xe = np.c_[f_rep * eps_rep, fe]
MomentMatrix(fc, eps, fe, nobs, nfactor, nportfolio) ==
    LET f_rep == tile(fc, 1, nportfolio)
        eps_rep == reshape_F(ravel_F(tile(eps, nfactor + 1, 1)),
                             nobs, (nfactor + 1) * nportfolio)
    IN  c_(multiply(f_rep, eps_rep), fe)

\* The index without the transpose: the identity.
VcvOrderNoTranspose(nfactor, nportfolio) ==
    ravel_C(reshape_C(arange((nfactor + 1) * nportfolio), nportfolio, nfactor + 1))

\* order = np.reshape(np.arange((nfactor + 1) * nportfolio), (nportfolio, nfactor + 1))
\* order = order.T.ravel()
VcvOrder(nfactor, nportfolio) ==
    ravel_C(transpose(reshape_C(arange((nfactor + 1) * nportfolio),
                                nportfolio, nfactor + 1)))

\* int(debiased) without the bool(): an int keeps its value.
DebiasedFlagUncoerced(debiased) ==
    IF debiased.t = "int" THEN debiased.i ELSE int(bool(debiased))

\* debiased = int(bool(debiased))
DebiasedFlag(debiased) == int(bool(debiased))

\* The labels with all alphas first, then the betas, then the lambdas.
ParamNamesFactorMajor(portfolio_cols, factor_cols) ==
    LET np == Cardinality(DOMAIN portfolio_cols)
        nf == Cardinality(DOMAIN factor_cols)
    IN  [n \in Range(np * (nf + 1) + nf) |->
            IF n < np THEN <<"alpha", portfolio_cols[n]>>
            ELSE IF n < np * (nf + 1)
            THEN <<"beta", portfolio_cols[(n - np) % np], factor_cols[(n - np) \div np]>>
            ELSE <<"lambda", factor_cols[n - np * (nf + 1)]>>]

\* The list built by the appends of the given portfolios, each followed by
\* the appends of its inner loop over the factors.
RECURSIVE AppendLoadings(_, _, _, _)
AppendLoadings(names, portfolio_cols, factor_cols, i) ==
    IF i = Cardinality(DOMAIN portfolio_cols) THEN names
    ELSE AppendLoadings(
            names \o <<<<"alpha", portfolio_cols[i]>>>>
                  \o [k \in 1 .. Cardinality(DOMAIN factor_cols) |->
                         <<"beta", portfolio_cols[i], factor_cols[k - 1]>>],
            portfolio_cols, factor_cols, i + 1)

\* param_names: for each portfolio 'alpha-<portfolio>' then one
\* 'beta-<portfolio>-<factor>' per factor; then one 'lambda-<factor>' per
\* factor.  A label is held as the tuple of its parts, the list as an array.
ParamNames(portfolio_cols, factor_cols) ==
    LET loadings == AppendLoadings(<<>>, portfolio_cols, factor_cols, 0)
        names == loadings \o [k \in 1 .. Cardinality(DOMAIN factor_cols) |->
                                 <<"lambda", factor_cols[k - 1]>>]
    IN  [n \in Range(Len(names)) |-> names[n + 1]]

NoValue == [type |-> "none"]

\* The body of TradedFactorModel.fit up to its return or raise: what is
\* raised, the AttrDict handed to TradedFactorModelResults, and the locals.
\* b = pinv(fc) @ p, eps, fe and the column means are symbolic arrays; the
\* sandwich xpxi @ xeex @ xpxi / (nobs - debiased * df) is held by its meat,
\* its divisor and its entries <<"full_vcv", r, c>>, so that every slice and
\* reordering of it shows which entries it took.
TradedFit(s, cov_type, debiased, cov_config) ==
    LET p == ndarray(s.portfolios)
        f == ndarray(s.factors)
        nportfolio == Cols(p)
        nobs == Rows(f)
        nfactor == Cols(f)
        fc == c_(Sym("one", nobs, 1), f)
        rp == Sym("f.mean", nfactor, 1)
        fe == Sym("fe", nobs, nfactor)
        b == Sym("b", nfactor + 1, nportfolio)
        eps == Sym("eps", nobs, nportfolio)
        alphas == transpose(block(b, 1, nportfolio))
        nloading == (nfactor + 1) * nportfolio
        xe == MomentMatrix(fc, eps, fe, nobs, nfactor, nportfolio)
        cov == CovDispatch(cov_type, cov_config, nobs)
    IN  IF cov.raised # ""
        THEN [raised |-> cov.raised, value |-> NoValue,
              locals |-> [fn |-> "TradedFactorModel.fit", xe |-> xe, cov |-> cov]]
        ELSE
        LET d == DebiasedFlag(debiased)
            df == Cols(fc)
            full_vcv == [bread |-> "xpxi", meat |-> cov.xeex, div |-> nobs - d * df,
                         entries |-> Sym("full_vcv", nloading + nfactor,
                                         nloading + nfactor)]
            vcv0 == block(full_vcv.entries, nloading, nloading)
            rp_cov == [meat |-> cov.rp_cov, div |-> nobs - d]
            order == VcvOrder(nfactor, nportfolio)
            vcv == take2(vcv0, order)
            alpha_vcv == block(vcv, nportfolio, nportfolio)
            jstat == [stat |-> "alphas.T @ pinv(alpha_vcv) @ alphas",
                      null |-> "All alphas are 0", df |-> nportfolio,
                      name |-> "J-statistic"]
            params == transpose(b)
            betas == transpose([k \in Range(nfactor) |-> b[k + 1]])
            param_names == ParamNames(cols(s.portfolios), cols(s.factors))
        IN  [raised |-> "",
             value |-> [type |-> "TradedFactorModelResults",
                        params |-> params, cov |-> full_vcv, betas |-> betas,
                        rp |-> rp, rp_cov |-> rp_cov, alphas |-> alphas,
                        alpha_vcv |-> alpha_vcv, jstat |-> jstat,
                        rsquared |-> "1 - residual_ss / total_ss",
                        total_ss |-> "(e ** 2).sum()",
                        residual_ss |-> "(eps ** 2).sum()",
                        param_names |-> param_names,
                        portfolio_names |-> cols(s.portfolios),
                        factor_names |-> cols(s.factors), name |-> s._name,
                        cov_type |-> cov_type, model |-> s, nobs |-> nobs],
             locals |-> [fn |-> "TradedFactorModel.fit", xe |-> xe, cov |-> cov,
                         debiased |-> d, order |-> order]]

\* A fit that also caches the covariance type on the model object.
TradedFactorModel_fit_caching(s, cov_type, debiased, cov_config) ==
    LET r == TradedFit(s, cov_type, debiased, cov_config)
    IN  [self |-> [s EXCEPT !._name = cov_type],
         raised |-> r.raised, value |-> r.value, locals |-> r.locals]

\* TradedFactorModel.fit(self, cov_type, debiased, **cov_config): the body
\* assigns to no attribute of self.
TradedFactorModel_fit(s, cov_type, debiased, cov_config) ==
    LET r == TradedFit(s, cov_type, debiased, cov_config)
    IN  [self |-> s, raised |-> r.raised, value |-> r.value, locals |-> r.locals]

(* ------------------------ LinearFactorModel.fit ------------------------- *)

Float(num, den) == [fl |-> "fin", num |-> num, den |-> den]

NaN == [fl |-> "nan"]

Inf == [fl |-> "inf"]

\* 1.0 / np.sqrt(v) in IEEE arithmetic (numpy warns and goes on): nan for a
\* negative v, inf for 0, and 1/r for the perfect square v = r * r.
InvSqrt(v) ==
    IF v < 0 THEN NaN
    ELSE IF v = 0 THEN Inf
    ELSE Float(1, CHOOSE r \in 1 .. v : r * r = v)

\* vals of np.linalg.eigh(sigma) for a diagonal sigma: the diagonal in
\* ascending order.
eigh_vals(diag) ==
    LET n == Cardinality(DOMAIN diag)
        values == {diag[i] : i \in Range(n)}
    IN  CHOOSE v \in [Range(n) -> values] :
            /\ \A i \in Range(n - 1) : v[i] <= v[i + 1]
            /\ \A x \in values :
                   Cardinality({i \in Range(n) : v[i] = x})
                       = Cardinality({i \in Range(n) : diag[i] = x})

\* np.eye(n)
eye(n) == [i \in Range(n) |-> [j \in Range(n) |-> IF i = j THEN Float(1, 1) ELSE Float(0, 1)]]

\* f_rep = np.tile(fc, (1, nportfolio))
\* eps_rep = np.tile(eps, (nfactor + 1, 1))
\* eps_rep = np.reshape(eps_rep.T, (nportfolio * (nfactor + 1), nobs)).T
\* scores = np.c_[f_rep * eps_rep, pricing_errors @ bc.T]
Scores(fc, eps, pe_bc, nobs, nfactor, nportfolio) ==
    LET f_rep == tile(fc, 1, nportfolio)
        eps_rep == transpose(reshape_C(ravel_C(transpose(tile(eps, nfactor + 1, 1))),
                                       nportfolio * (nfactor + 1), nobs))
    IN  c_(multiply(f_rep, eps_rep), pe_bc)

\* The weights 1.0 / np.sqrt(vals) of the supplied sigma; the empty array
\* when sigma is None.
SigmaWeights(sigma) ==
    IF sigma.t = "none" THEN <<>>
    ELSE LET vals == eigh_vals(sigma.diag)
         IN  [i \in DOMAIN vals |-> InvSqrt(vals[i])]

\* LinearFactorModel.fit(self, cov_type, debiased, **cov_config): the set of
\* its outcomes.  The arguments are not read.  With a weight that is inf or
\* nan the least-squares solve of step 2 either raises LinAlgError (the SVD
\* does not converge) or returns nan estimates, depending on the LAPACK build.
LinearFactorModel_fit(s, cov_type, debiased, cov_config) ==
    LET f == ndarray(s.factors)
        nobs == Rows(f)
        nfactor == Cols(f)
        p == ndarray(s.portfolios)
        nportfolio == Cols(p)
        fc == c_(Sym("one", nobs, 1), f)
        eps == Sym("eps", nobs, nportfolio)
        weights == SigmaWeights(s._sigma)
        finite == \A i \in DOMAIN weights : weights[i].fl = "fin"
        sigma_m12 == IF s._sigma.t = "none"
                     THEN [form |-> "np.eye", entries |-> eye(nportfolio)]
                     ELSE [form |-> "vecs @ np.diag(weights) @ vecs.T",
                           weights |-> weights]
        scores == Scores(fc, eps, Sym("pricing_errors @ bc.T", nobs, nfactor),
                         nobs, nfactor, nportfolio)
        returned ==
            [self |-> s, raised |-> "",
             value |-> [type |-> "tuple",
                        items |-> <<[name |-> "lam", shape |-> <<1, nfactor>>,
                                     finite |-> finite],
                                    [name |-> "alpha", shape |-> <<nportfolio>>,
                                     finite |-> finite]>>],
             locals |-> [fn |-> "LinearFactorModel.fit", sigma_m12 |-> sigma_m12,
                         weights |-> weights, scores |-> scores]]
        raised ==
            [self |-> s, raised |-> "LinAlgError", value |-> NoValue,
             locals |-> [fn |-> "LinearFactorModel.fit", sigma_m12 |-> sigma_m12,
                         weights |-> weights]]
    IN  IF finite THEN {returned} ELSE {returned, raised}

(* ------------------------------ inputs ---------------------------------- *)

\* An array-like argument: nobs rows, ncol columns.
ArrayLike(nobs, ncol) == [nobs |-> nobs, ncol |-> ncol]

NobsInputs(nfactor) == {nfactor + 1, nfactor + 2}

\* The sigma argument: None, or a diagonal nportfolio-by-nportfolio matrix
\* (held by its diagonal): 4 * I, or 4 * I with its last entry replaced by a
\* negative number or by zero.
SigmaInputs(nportfolio) ==
    {PyNone} \cup
    {[t |-> "array",
      diag |-> [i \in Range(nportfolio) |-> IF i = nportfolio - 1 THEN v ELSE 4]] :
        v \in {-1, 0, 4}}

CovTypeInputs == {"robust", "heteroskedastic", "kernel", "homoskedastic"}

DebiasedInputs == {PyBool(TRUE), PyBool(FALSE), PyInt(2), PyStr("")}

KernelInputs == {PyNone, PyStr("parzen"), PyStr("epanechnikov")}

BandwidthInputs == {PyNone, PyInt(-1), PyInt(0), PyInt(2)}

\* The keyword dict **cov_config; PyNone here stands for a key not passed.
CovConfig(kernel, bandwidth) ==
    [key \in (IF kernel.t = "none" THEN {} ELSE {"kernel"})
               \cup (IF bandwidth.t = "none" THEN {} ELSE {"bandwidth"}) |->
        IF key = "kernel" THEN kernel ELSE bandwidth]

CovConfigInputs == {CovConfig(k, b) : k \in KernelInputs, b \in BandwidthInputs}

\* The argument lists (cov_type, debiased, cov_config) of a fit call: every
\* debiased value with no keyword for the types that read none, and every
\* keyword dict with debiased left at its default for 'kernel'.
FitInputs ==
    {<<c, d, <<>>>> : c \in CovTypeInputs \ {"kernel"}, d \in DebiasedInputs}
        \cup {<<"kernel", PyBool(TRUE), cfg>> : cfg \in CovConfigInputs}

(* --------------------------- the state machine -------------------------- *)

NoCall == [op |-> "", raised |-> "", value |-> NoValue]

NoLocals == [fn |-> ""]

Init ==
    /\ self = NoObject
    /\ ctor = NoCall
    /\ ret = NoCall
    /\ locals = NoLocals
    /\ nfits = 0

\* TradedFactorModel(portfolios, factors)
NewTradedFactorModel ==
    /\ self.cls = "none"
    /\ \E nportfolio \in 1 .. MaxNportfolio, nfactor \in 1 .. MaxNfactor :
          \E nobs \in NobsInputs(nfactor) :
          LET r == TradedFactorModel_init("TradedFactorModel",
                                          ArrayLike(nobs, nportfolio),
                                          ArrayLike(nobs, nfactor), <<>>)
              call == [op |-> "TradedFactorModel.__init__", raised |-> r.raised,
                       value |-> NoValue,
                       portfolios |-> ArrayLike(nobs, nportfolio),
                       factors |-> ArrayLike(nobs, nfactor)]
          IN  /\ self' = r.self
              /\ ctor' = call
              /\ ret' = call
              /\ locals' = NoLocals
              /\ nfits' = 0

\* LinearFactorModel(portfolios, factors, sigma=sigma)
NewLinearFactorModel ==
    /\ self.cls = "none"
    /\ \E nportfolio \in 1 .. MaxNportfolio, nfactor \in 1 .. MaxNfactor :
          \E nobs \in NobsInputs(nfactor) :
          \E sigma \in SigmaInputs(nportfolio) :
              LET r == LinearFactorModel_init(ArrayLike(nobs, nportfolio),
                                              ArrayLike(nobs, nfactor), sigma)
                  call == [op |-> "LinearFactorModel.__init__", raised |-> r.raised,
                           value |-> NoValue,
                           portfolios |-> ArrayLike(nobs, nportfolio),
                           factors |-> ArrayLike(nobs, nfactor), sigma |-> sigma]
              IN  /\ self' = r.self
                  /\ ctor' = call
                  /\ ret' = call
                  /\ locals' = NoLocals
                  /\ nfits' = 0

\* LinearFactorModelGMM(factors, portfolios, constant=constant)
NewLinearFactorModelGMM ==
    /\ self.cls = "none"
    /\ \E nportfolio \in 1 .. MaxNportfolio, nfactor \in 1 .. MaxNfactor :
          \E nobs \in NobsInputs(nfactor), constant \in BOOLEAN :
          LET r == LinearFactorModelGMM_init(ArrayLike(nobs, nfactor),
                                             ArrayLike(nobs, nportfolio), constant)
              call == [op |-> "LinearFactorModelGMM.__init__", raised |-> r.raised,
                       value |-> NoValue,
                       portfolios |-> ArrayLike(nobs, nportfolio),
                       factors |-> ArrayLike(nobs, nfactor), constant |-> constant]
          IN  /\ self' = r.self
              /\ ctor' = IF r.raised = "" THEN call ELSE ctor
              /\ ret' = call
              /\ locals' = NoLocals
              /\ nfits' = 0

\* model.fit(cov_type, debiased, **cov_config) on a TradedFactorModel
FitTraded ==
    /\ self.cls = "TradedFactorModel"
    /\ nfits < MaxFits
    /\ \E args \in FitInputs :
          LET cov_type == args[1]
              debiased == args[2]
              cov_config == args[3]
              r == TradedFactorModel_fit(self, cov_type, debiased, cov_config)
          IN  /\ self' = r.self
              /\ ret' = [op |-> "TradedFactorModel.fit", raised |-> r.raised,
                         value |-> r.value, cov_type |-> cov_type,
                         debiased |-> debiased, cov_config |-> cov_config]
              /\ locals' = r.locals
              /\ nfits' = nfits + 1
              /\ UNCHANGED ctor

\* model.fit(cov_type, debiased, **cov_config) on a LinearFactorModel
FitLinear ==
    /\ self.cls = "LinearFactorModel"
    /\ nfits < MaxFits
    /\ \E args \in FitInputs :
          \E r \in LinearFactorModel_fit(self, args[1], args[2], args[3]) :
              /\ self' = r.self
              /\ ret' = [op |-> "LinearFactorModel.fit", raised |-> r.raised,
                         value |-> r.value, cov_type |-> args[1],
                         debiased |-> args[2], cov_config |-> args[3]]
              /\ locals' = r.locals
              /\ nfits' = nfits + 1
              /\ UNCHANGED ctor

\* model.fit() on a LinearFactorModelGMM.  No step constructs such an object
\* (NewLinearFactorModelGMM raises), so the step is left out of Next.
FitGMM ==
    /\ self.cls = "LinearFactorModelGMM"
    /\ nfits < MaxFits
    /\ LET r == LinearFactorModelGMM_fit(self)
       IN  /\ self' = r.self
           /\ ret' = [op |-> "LinearFactorModelGMM.fit", raised |-> r.raised,
                      value |-> r.value]
           /\ locals' = NoLocals
           /\ nfits' = nfits + 1
           /\ UNCHANGED ctor

Next ==
    \/ NewTradedFactorModel
    \/ NewLinearFactorModel
    \/ NewLinearFactorModelGMM
    \/ FitTraded
    \/ FitLinear

Spec == Init /\ [][Next]_vars

(* ------------------------------ properties ------------------------------ *)

\* The shape of the model object: T observations, N portfolios, K factors.
T == self.factors.shape[1]

N == self.portfolios.shape[2]

K == self.factors.shape[2]

TradedFitDone == ret.op = "TradedFactorModel.fit"

LinearFitDone == ret.op = "LinearFactorModel.fit"

\* fc[t, k], eps[t, i] and fe[t, k] as the fit bodies define them.
FcEntry(t, k) == IF k = 0 THEN <<"one", t, 0>> ELSE <<"factor", t, k - 1>>

EpsEntry(t, i) == <<"eps", t, i>>

FeEntry(t, k) == <<"fe", t, k>>

\* C1: TradedFactorModel.fit dispatches on cov_type: 'robust' and
\* 'heteroskedastic' both take the robust path (xeex = xe'xe/T,
\* rp_cov = fe'fe/T), 'kernel' takes the kernel path, and any other value
\* makes fit raise the unknown-cov_type ValueError and return no Results.
C1_CovTypeDispatch ==
    TradedFitDone =>
        /\ ret.cov_type \in {"robust", "heteroskedastic"} =>
               /\ ret.raised = ""
               /\ ret.value.type = "TradedFactorModelResults"
               /\ locals.cov.path = "robust"
               /\ locals.cov.xeex = [est |-> "outer", of |-> "xe", div |-> T]
               /\ locals.cov.rp_cov = [est |-> "outer", of |-> "fe", div |-> T]
               /\ ret.value.cov.meat = locals.cov.xeex
               /\ ret.value.rp_cov.meat = locals.cov.rp_cov
        /\ ret.cov_type = "kernel" =>
               /\ locals.cov.path = "kernel"
               /\ ret.raised = "" =>
                      /\ locals.cov.xeex.est = "kernel"
                      /\ locals.cov.rp_cov.est = "kernel"
        /\ ret.cov_type \notin {"robust", "heteroskedastic", "kernel"} =>
               /\ ret.raised = "ValueError"
               /\ ret.value = NoValue

C1_Witness ==
    /\ TradedFitDone
    /\ ret.cov_type = "heteroskedastic"
    /\ ret.raised = ""
    /\ locals.cov.path = "robust"

\* The model object a constructor call with the recorded arguments builds.
Constructed(call) ==
    IF call.op = "TradedFactorModel.__init__"
    THEN TradedFactorModel_init("TradedFactorModel", call.portfolios,
                                call.factors, <<>>).self
    ELSE LinearFactorModel_init(call.portfolios, call.factors, call.sigma).self

\* What fit(cov_type, debiased, **cov_config) raises or returns on model s.
FitOutcomes(s, cov_type, debiased, cov_config) ==
    IF s.cls = "TradedFactorModel"
    THEN LET r == TradedFactorModel_fit(s, cov_type, debiased, cov_config)
         IN  {[raised |-> r.raised, value |-> r.value]}
    ELSE {[raised |-> r.raised, value |-> r.value] :
             r \in LinearFactorModel_fit(s, cov_type, debiased, cov_config)}

\* C2: every fit call on a TradedFactorModel or LinearFactorModel, failing
\* or not and whatever its arguments and the calls before it, leaves the
\* fields of the model unchanged, and what it raises or returns is what the
\* same call raises or returns on the model as the constructor built it.
C2_FitLeavesModelUnchanged ==
    [][ret'.op \in {"TradedFactorModel.fit", "LinearFactorModel.fit"} =>
           /\ self' = self
           /\ self' = Constructed(ctor')
           /\ [raised |-> ret'.raised, value |-> ret'.value]
                  \in FitOutcomes(Constructed(ctor'), ret'.cov_type,
                                  ret'.debiased, ret'.cov_config)]_vars

C2_Witness ==
    /\ nfits >= 2
    /\ TradedFitDone
    /\ ret.raised # ""
    /\ self = Constructed(ctor)

\* C3: LinearFactorModelGMM can always be constructed from a portfolio
\* matrix and a factor matrix: the constructor raises nothing and yields an
\* instance (whose fit then raises NotImplementedError).
C3_GMMConstructible ==
    ret.op = "LinearFactorModelGMM.__init__" =>
        /\ ret.raised = ""
        /\ self.cls = "LinearFactorModelGMM"
        /\ LinearFactorModelGMM_fit(self).raised = "NotImplementedError"

\* The supplied sigma has an eigenvalue that is zero or negative.
NonPositiveSigma ==
    /\ self._sigma.t # "none"
    /\ \E i \in DOMAIN self._sigma.diag : self._sigma.diag[i] <= 0

\* C4: LinearFactorModel.fit with a supplied sigma that has a non-positive
\* eigenvalue raises and returns no estimates, and no weight is inf or nan;
\* with sigma absent the weighting matrix is the N-by-N identity.
C4_NonPositiveSigmaRejected ==
    LinearFitDone =>
        /\ NonPositiveSigma =>
               /\ ret.raised # ""
               /\ ret.value = NoValue
               /\ \A i \in DOMAIN locals.weights : locals.weights[i].fl = "fin"
        /\ self._sigma.t = "none" =>
               /\ locals.sigma_m12.form = "np.eye"
               /\ \A i, j \in Range(N) :
                      locals.sigma_m12.entries[i][j]
                          = IF i = j THEN Float(1, 1) ELSE Float(0, 1)

\* The bandwidth keyword of the call, PyNone when it was not passed.
SuppliedBandwidth == Get(ret.cov_config, "bandwidth", PyNone)

SuppliedKernel == Get(ret.cov_config, "kernel", PyStr("bartlett")).s

\* b = ceil(4 * (T/100)^(2/9)): b - 1 < 4 * (T/100)^(2/9) <= b, in integers
\* (x <= 4 * (T/100)^(2/9) iff 625 * x^9 <= 16384 * T^2 for x >= 0).
IsAutoBandwidth(b) ==
    /\ b >= 1
    /\ 625 * (b ^ 9) >= 16384 * T * T
    /\ 625 * ((b - 1) ^ 9) < 16384 * T * T

\* The bandwidth handed to the kernel: the supplied one, 0 included, or the
\* automatic one when none is supplied.
BandwidthRule ==
    IF SuppliedBandwidth.t = "none"
    THEN IsAutoBandwidth(locals.cov.bw)
    ELSE locals.cov.bw = SuppliedBandwidth.i

NegativeBandwidth == SuppliedBandwidth.t = "int" /\ SuppliedBandwidth.i < 0

\* C5 as stated: with cov_type='kernel' a negative bandwidth makes fit fail
\* with the invalid-bandwidth error and return no Results, whatever the
\* kernel name; the bandwidth is automatic only when none is supplied and a
\* supplied one is passed on unchanged.
C5_NegativeBandwidthError ==
    (TradedFitDone /\ ret.cov_type = "kernel") =>
        /\ NegativeBandwidth =>
               /\ ret.raised = "InvalidBandwidthError"
               /\ ret.value = NoValue
        /\ BandwidthRule

\* C5, amended: with cov_type='kernel' a negative bandwidth makes fit fail
\* and return no Results; the failure is the invalid-bandwidth error when the
\* kernel name is a known one and the unknown-kernel error otherwise (the
\* name is looked up first).  The bandwidth rule is as stated.
C5_NegativeBandwidthFails ==
    (TradedFitDone /\ ret.cov_type = "kernel") =>
        /\ NegativeBandwidth =>
               /\ ret.value = NoValue
               /\ ret.raised = IF SuppliedKernel \in KERNEL_LOOKUP
                               THEN "InvalidBandwidthError"
                               ELSE "UnknownKernelError"
        /\ BandwidthRule

C5_Witness ==
    /\ TradedFitDone
    /\ ret.cov_type = "kernel"
    /\ NegativeBandwidth
    /\ ret.raised = "InvalidBandwidthError"

\* The attributes a Results record exposes at least.
ResultsFields ==
    {"params", "cov", "betas", "alphas", "alpha_vcv", "rp", "rp_cov", "jstat",
     "rsquared", "param_names", "cov_type", "model", "nobs"}

\* C6: a successful fit of a TradedFactorModel or LinearFactorModel returns a
\* single Results record with at least params, cov, betas, alphas, alpha_vcv,
\* the risk premia, rp_cov, the Wald statistic (N degrees of freedom, null
\* 'all alphas are zero'), rsquared, param_names, cov_type, the model and the
\* observation count.
C6_FitReturnsResults ==
    ((TradedFitDone \/ LinearFitDone) /\ ret.raised = "") =>
        /\ ret.value.type \notin {"none", "tuple"}
        /\ ResultsFields \subseteq DOMAIN ret.value
        /\ ret.value.jstat.df = N
        /\ ret.value.jstat.null = "All alphas are 0"
        /\ ret.value.model = self
        /\ ret.value.nobs = T

\* Column j < N*(K+1) of a moment matrix m is fc[:, j mod (K+1)] times
\* eps[:, j div (K+1)].
PortfolioMajor(m) ==
    \A t \in Range(T), j \in Range(N * (K + 1)) :
        m[t][j] = Times(FcEntry(t, j % (K + 1)), EpsEntry(t, j \div (K + 1)))

\* C7: the stacked moment matrix xe of TradedFactorModel.fit has T rows and
\* N*(K+1)+K columns, portfolio-major in its first N*(K+1) columns and equal
\* to fe in its last K; the first N*(K+1) score columns of
\* LinearFactorModel.fit follow the same mapping.
C7_MomentMatrixLayout ==
    /\ locals.fn = "TradedFactorModel.fit" =>
           /\ Rows(locals.xe) = T
           /\ \A t \in Range(T) : DOMAIN locals.xe[t] = Range(N * (K + 1) + K)
           /\ PortfolioMajor(locals.xe)
           /\ \A t \in Range(T), k \in Range(K) :
                  locals.xe[t][N * (K + 1) + k] = FeEntry(t, k)
    /\ (locals.fn = "LinearFactorModel.fit" /\ ret.raised = "") =>
           /\ Rows(locals.scores) = T
           /\ PortfolioMajor(locals.scores)

C7_Witness ==
    /\ locals.fn = "TradedFactorModel.fit"
    /\ N >= 2
    /\ K >= 2
    /\ locals.xe[1][K + 2] = Times(FcEntry(1, 1), EpsEntry(1, 1))

\* C8: the reordering index of TradedFactorModel.fit is a permutation of
\* 0..N*(K+1)-1 with order[k*N + i] = i*(K+1) + k, and alpha_vcv is the
\* intercept-only block of the loadings covariance:
\* alpha_vcv[i, j] = full_vcv[i*(K+1), j*(K+1)].
C8_AlphaBlock ==
    (TradedFitDone /\ ret.raised = "") =>
        /\ DOMAIN locals.order = Range(N * (K + 1))
        /\ {locals.order[n] : n \in DOMAIN locals.order} = Range(N * (K + 1))
        /\ \A k \in Range(K + 1), i \in Range(N) :
               locals.order[k * N + i] = i * (K + 1) + k
        /\ DOMAIN ret.value.alpha_vcv = Range(N)
        /\ \A i, j \in Range(N) :
               /\ DOMAIN ret.value.alpha_vcv[i] = Range(N)
               /\ ret.value.alpha_vcv[i][j]
                      = ret.value.cov.entries[i * (K + 1)][j * (K + 1)]
               /\ ret.value.alpha_vcv[i][j] = <<"full_vcv", i * (K + 1), j * (K + 1)>>

C8_Witness ==
    /\ TradedFitDone
    /\ ret.raised = ""
    /\ N >= 2
    /\ K >= 2
    /\ ret.value.alpha_vcv[1][0] = <<"full_vcv", K + 1, 0>>

\* The label of portfolio i and of factor k (counted from 1).
PortfolioLabel(i) == <<"portfolio", i>>

FactorLabel(k) == <<"factor", k - 1>>

\* C9: param_names of TradedFactorModel.fit has N*(K+1)+K entries, as many
\* as cov has rows, portfolio-major: entry i*(K+1) is alpha-<portfolio i>,
\* entry i*(K+1)+k is beta-<portfolio i>-<factor k>, entry N*(K+1)+k-1 is
\* lambda-<factor k>.  The order is that of the rows of cov, which is the
\* un-reordered covariance of the moment columns of xe, and of the row-wise
\* flattening of params (row i = alpha_i, beta_i1 .. beta_iK).
C9_ParamNamesOrder ==
    (TradedFitDone /\ ret.raised = "") =>
        LET names == ret.value.param_names
        IN  /\ DOMAIN names = Range(N * (K + 1) + K)
            /\ DOMAIN ret.value.cov.entries = DOMAIN names
            /\ \A i \in Range(N) :
                   /\ names[i * (K + 1)] = <<"alpha", PortfolioLabel(i)>>
                   /\ \A k \in 1 .. K :
                          names[i * (K + 1) + k]
                              = <<"beta", PortfolioLabel(i), FactorLabel(k)>>
            /\ \A k \in 1 .. K :
                   names[N * (K + 1) + k - 1] = <<"lambda", FactorLabel(k)>>
            /\ \A r, c \in DOMAIN names :
                   ret.value.cov.entries[r][c] = <<"full_vcv", r, c>>
            /\ \A i \in Range(N), k \in Range(K + 1) :
                   /\ ret.value.params[i][k] = <<"b", k, i>>
                   /\ names[i * (K + 1) + k][2] = PortfolioLabel(i)
                   /\ locals.xe[0][i * (K + 1) + k]
                          = Times(FcEntry(0, k), EpsEntry(0, i))
                   /\ (k = 0) = (names[i * (K + 1) + k][1] = "alpha")

C9_Witness ==
    /\ TradedFitDone
    /\ ret.raised = ""
    /\ N >= 2
    /\ K >= 2
    /\ ret.value.param_names[K + 1] = <<"alpha", PortfolioLabel(1)>>

\* C10: debiased is coerced by truthiness to d in {0, 1}; the full
\* covariance is divided by T - d*(K+1) and rp_cov by T - d, and both
\* divisors are positive whenever T > K + 1.
C10_DebiasedDivisors ==
    (TradedFitDone /\ ret.raised = "") =>
        LET d == locals.debiased
        IN  /\ d \in {0, 1}
            /\ (d = 1) = (ret.debiased \in {PyBool(TRUE), PyInt(2)})
            /\ ret.value.cov.div = T - d * (K + 1)
            /\ ret.value.rp_cov.div = T - d
            /\ d = 0 => (ret.value.cov.div = T /\ ret.value.rp_cov.div = T)
            /\ d = 1 => (ret.value.cov.div = T - (K + 1)
                           /\ ret.value.rp_cov.div = T - 1)
            /\ T > K + 1 => (ret.value.cov.div > 0 /\ ret.value.rp_cov.div > 0)

C10_Witness ==
    /\ TradedFitDone
    /\ ret.raised = ""
    /\ ret.debiased = PyInt(2)
    /\ T > K + 1
    /\ ret.value.cov.div = 1

====
